---- MODULE Spec2Model ----
(***************************************************************************)
(* State-machine model of the video downloader backend                     *)
(* (src/app.py, with its earlier revisions src/unnamed/part_000 and        *)
(* src/app1.py): the sliding-window RateLimiter with its periodic purge,  *)
(* the /download lifecycle (temporary directory, gateway call, streaming,  *)
(* cleanup) and the read loop of the streaming generator.                  *)
(* Time is counted in whole seconds.                                       *)
(***************************************************************************)
EXTENDS Integers, Sequences, FiniteSets, TLC

\* ----------------------------------------------------------------------
\* Program constants
\* ----------------------------------------------------------------------
RATE_LIMIT_WINDOW == 20

RATE_LIMIT_MAX_REQUESTS == 15

CLEANUP_INTERVAL == 300

SECONDS_PER_DAY == 86400

\* status_code of the response of global_exception_handler.
UNHANDLED_STATUS == 500

\* ----------------------------------------------------------------------
\* Bounds of the model
\* ----------------------------------------------------------------------
\* Calls of check_rate_limit in one behaviour.
MaxCalls == 18

\* Requests of one client in flight at the same moment (more than
\* RATE_LIMIT_MAX_REQUESTS of them).
NumSimultaneous == 16

\* Calls of check_rate_limit made by each client other than MainClient.
MaxOther == 1

\* Advances of the clock in one behaviour.
MaxTicks == 2

\* /download requests in one behaviour.
NumRequests == 2

\* Largest artifact, in chunks of CHUNK_SIZE bytes.
MaxChunks == 2

\* Calls of check_rate_limit in one behaviour that follows the purge over
\* long stretches of time.
MaxPurgeCalls == 4

\* Largest artifact whose bytes are followed one by one, in bytes.
MaxBytes == 5

\* The chunk size used for those artifacts (config.CHUNK_SIZE, 1 MiB in the
\* program, brought down to the size of the artifacts explored).
ChunkSize == 2

\* The values of a byte that are told apart.
Bytes == {0, 1}

\* Client addresses (request.client.host).
Clients == {"10.1.1.1", "10.2.2.2"}

\* The client whose bursts are explored in full.
MainClient == "10.1.1.1"

\* Amounts by which the clock advances between two calls: 5 and 15 stay
\* inside the window and add up to exactly the window; 290 followed by 15
\* passes the purge interval while calls made at 290 are still in the window.
Steps == {5, 15, 290}

\* Amounts by which the clock advances when the purge is followed: 25 is
\* between one and two windows, 290 followed by 25 passes the purge
\* interval, and one day.
PurgeSteps == {25, 290, SECONDS_PER_DAY}

VARIABLES
    now,           \* datetime.now(), in seconds
    requests,      \* RateLimiter.requests: ip -> list of timestamps (only the keys present)
    last_cleanup,  \* RateLimiter.last_cleanup
    admitted,      \* history: per client, its latest admitted calls, oldest first (at most MAX+1 of them)
    last,          \* history: the latest call of check_rate_limit and its outcome
    ncalls,        \* history: per client, the number of calls it made
    first_call,    \* history: per client, the time of its first call (-1: none yet)
    burst,         \* history: per client, the burst that got it rejected (NoBurst: not rejected since its last admission)
    ticks,         \* number of advances of the clock so far
    variant,       \* which revision of the service runs: "app", "part_000" or "app1"
    req,           \* per request in flight: its position in the handler and what it did
    loop,          \* the request whose handler occupies the event loop (0: none)
    fs,            \* the temporary directories that exist: name -> set of file names
    inflight,      \* simultaneous requests of one client, counted by their position
    stream,        \* a run of the streaming generator over the bytes of one artifact
    hreq,          \* per request to /preview, /profile or /download: its handler's position and what it did
    solo           \* a second RateLimiter, which receives the calls of MainClient only

limvars == <<requests, last_cleanup, admitted, last, ncalls, first_call, burst>>

dlvars == <<variant, req, loop, fs>>

auxvars == <<stream, hreq, solo>>

vars == <<now, requests, last_cleanup, admitted, last, ncalls, first_call, burst,
          ticks, variant, req, loop, fs, inflight, stream, hreq, solo>>

\* ----------------------------------------------------------------------
\* RateLimiter
\* ----------------------------------------------------------------------
\* timedelta.seconds: the seconds field of a normalised timedelta
\* (0 <= seconds < 86400, the days are held apart).
TimedeltaSeconds(d) == d % SECONDS_PER_DAY

\* Variant: entries exactly at the cutoff are kept.
NewerThanOrAt(lst, cutoff) == SelectSeq(lst, LAMBDA t : t >= cutoff)

\* [t for t in lst if t > cutoff]
NewerThan(lst, cutoff) == SelectSeq(lst, LAMBDA t : t > cutoff)

RECURSIVE Merged(_, _)
Merged(reqs, S) ==
    IF S = {} THEN <<>>
    ELSE LET k == CHOOSE x \in S : TRUE
         IN  reqs[k] \o Merged(reqs, S \ {k})

\* Variant: one list for all the clients.
LookupMerged(reqs, ip) == Merged(reqs, DOMAIN reqs)

\* self.requests[ip] of the defaultdict(list): a missing key reads as [].
Lookup(reqs, ip) == IF ip \in DOMAIN reqs THEN reqs[ip] ELSE <<>>

\* The condition of _cleanup_old_entries.
CleanupDue(t, lastc) == TimedeltaSeconds(t - lastc) > CLEANUP_INTERVAL

\* cutoff = now - timedelta(seconds=config.RATE_LIMIT_WINDOW * 2)
CleanupCutoff(t) == t - RATE_LIMIT_WINDOW * 2

\* Variant: the purge filters the lists and deletes no key.
PurgedMapKeepingKeys(reqs, t) ==
    [ip \in DOMAIN reqs |-> NewerThan(reqs[ip], CleanupCutoff(t))]

\* Variant: the purge drops every list, whatever its age.
PurgedMapAll(reqs, t) == << >>

\* The loop of _cleanup_old_entries: every list is filtered by the cutoff
\* and a key whose list became empty is deleted.
PurgedMap(reqs, t) ==
    LET keep == {ip \in DOMAIN reqs : NewerThan(reqs[ip], CleanupCutoff(t)) # <<>>}
    IN  [ip \in keep |-> NewerThan(reqs[ip], CleanupCutoff(t))]

\* _cleanup_old_entries(): the map and last_cleanup after the call.
CleanupOldEntries(reqs, lastc, t) ==
    IF CleanupDue(t, lastc)
    THEN [requests |-> PurgedMap(reqs, t), last_cleanup |-> t]
    ELSE [requests |-> reqs, last_cleanup |-> lastc]

\* window_start = now - timedelta(seconds=config.RATE_LIMIT_WINDOW)
WindowStart(t) == t - RATE_LIMIT_WINDOW

\* Variant: the list is taken as it is, without the filter.
AllRequests(reqs, ip, t) == Lookup(reqs, ip)

\* self.requests[ip] = [t for t in self.requests[ip] if t > window_start]
RecentRequests(reqs, ip, t) == NewerThan(Lookup(reqs, ip), WindowStart(t))

\* Variant: the limit is compared with > instead of >=.
LimitExceededStrict(lst) == Len(lst) > RATE_LIMIT_MAX_REQUESTS

\* if len(self.requests[ip]) >= config.RATE_LIMIT_MAX_REQUESTS: raise 429
LimitExceeded(lst) == Len(lst) >= RATE_LIMIT_MAX_REQUESTS

\* The map with key ip set to lst (created when missing).
Store(reqs, ip, lst) ==
    [k \in DOMAIN reqs \cup {ip} |-> IF k = ip THEN lst ELSE reqs[k]]

\* Variant: now is appended before the length is tested, so that a rejected
\* call leaves its timestamp in the list.
CheckRateLimitAppendFirst(reqs, lastc, ip, t) ==
    LET c      == CleanupOldEntries(reqs, lastc, t)
        recent == RecentRequests(c.requests, ip, t)
    IN  [requests     |-> Store(c.requests, ip, Append(recent, t)),
         last_cleanup |-> c.last_cleanup,
         result       |-> IF LimitExceeded(recent) THEN "rejected" ELSE "admitted"]

\* check_rate_limit(ip) at time t: the new map, the new last_cleanup and
\* the outcome ("admitted", or "rejected" for HTTPException 429).
CheckRateLimit(reqs, lastc, ip, t) ==
    LET c      == CleanupOldEntries(reqs, lastc, t)
        recent == RecentRequests(c.requests, ip, t)
    IN  IF LimitExceeded(recent)
        THEN [requests     |-> Store(c.requests, ip, recent),
              last_cleanup |-> c.last_cleanup,
              result       |-> "rejected"]
        ELSE [requests     |-> Store(c.requests, ip, Append(recent, t)),
              last_cleanup |-> c.last_cleanup,
              result       |-> "admitted"]

\* self.requests[ip].append(now) on its own, without the test before it.
AppendOnly(reqs, lastc, ip, t) ==
    [requests     |-> Store(reqs, ip, Append(Lookup(reqs, ip), t)),
     last_cleanup |-> lastc,
     result       |-> "admitted"]

\* Variant: the handlers are plain functions, which FastAPI runs in worker
\* threads.
HandlersArePlainFunctions(v) == FALSE

\* The handlers that call the limiter are coroutines (async def
\* preview_video, fetch_profile, download_video): the event loop runs each
\* one without interruption up to its first await, and check_rate_limit
\* holds none.
HandlersAreCoroutines(v) == v \in {"app", "part_000"}

\* ----------------------------------------------------------------------
\* The /download handler and the streaming generator
\* ----------------------------------------------------------------------
\* The revisions of the service: src/app.py, src/unnamed/part_000 and
\* src/app1.py.
Variants == {"app", "part_000", "app1"}

\* The revisions whose download handler starts with check_rate_limit and
\* validate_url; src/app1.py has neither.
HasLimiter(v) == v \in {"app", "part_000"}

\* The file names the gateway can leave in the temporary directory: the
\* expected <index>.mp4 and a file of another name (a partial download).
Artifact == "index.mp4"

Partial == "index.mp4.part"

FileNames == {Artifact, Partial}

\* os.path.exists(os.path.join(d, name))
Exists(f, d, name) == d \in DOMAIN f /\ name \in f[d]

\* os.remove(os.path.join(d, name)) of an existing file
OsRemove(f, d, name) == [f EXCEPT ![d] = @ \ {name}]

\* os.rmdir(d) succeeds only on an existing, empty directory and raises
\* OSError otherwise.
OsRmdirRaises(f, d) == d \notin DOMAIN f \/ f[d] # {}

OsRmdir(f, d) == [x \in DOMAIN f \ {d} |-> f[x]]

\* The cleanup block of download_video and of stream_file_and_cleanup:
\*   try:
\*       if os.path.exists(file_path): os.remove(file_path)
\*       if os.path.exists(temp_dir): os.rmdir(temp_dir)
\*   except: pass
CleanupWorkspace(f, d) ==
    LET f1 == IF Exists(f, d, Artifact) THEN OsRemove(f, d, Artifact) ELSE f
    IN  IF d \in DOMAIN f1 /\ ~OsRmdirRaises(f1, d) THEN OsRmdir(f1, d) ELSE f1

\* The cleanup of src/app1.py's stream():
\*   try: os.remove(path); os.rmdir(tmp)
\*   except: pass
\* os.remove raises when the file is missing, and os.rmdir is then skipped.
CleanupUnchecked(f, d) ==
    IF ~Exists(f, d, Artifact) THEN f
    ELSE LET f1 == OsRemove(f, d, Artifact)
         IN  IF OsRmdirRaises(f1, d) THEN f1 ELSE OsRmdir(f1, d)

\* What the handler does once ydl.download has returned or raised:
\* the status of the response, whether its cleanup block runs, and whether
\* a StreamingResponse is returned. raised is "none", "DownloadError" or
\* "Exception"; hasFile is os.path.exists(file_path).
HandlerReaction(v, raised, hasFile) ==
    CASE v = "app" ->
           IF raised = "DownloadError"
           THEN [status |-> 422, cleanup |-> TRUE, stream |-> FALSE]
           ELSE IF raised = "Exception" \/ ~hasFile
           THEN [status |-> 500, cleanup |-> TRUE, stream |-> FALSE]
           ELSE [status |-> 200, cleanup |-> FALSE, stream |-> TRUE]
      [] v = "part_000" ->
           IF raised # "none" \/ ~hasFile
           THEN [status |-> 422, cleanup |-> TRUE, stream |-> FALSE]
           ELSE [status |-> 200, cleanup |-> FALSE, stream |-> TRUE]
      [] OTHER ->
           IF raised # "none"
           THEN [status |-> 500, cleanup |-> FALSE, stream |-> FALSE]
           ELSE IF ~hasFile
           THEN [status |-> 400, cleanup |-> FALSE, stream |-> FALSE]
           ELSE [status |-> 200, cleanup |-> FALSE, stream |-> TRUE]

\* Whether the generator's cleanup sits in a finally clause
\* (stream_file_and_cleanup) or after the read loop (app1.py's stream()).
CleanupInFinally(v) == v \in {"app", "part_000"}

\* The cleanup the generator runs when it reaches it.
StreamCleanup(v, f, d) ==
    IF CleanupInFinally(v) THEN CleanupWorkspace(f, d) ELSE CleanupUnchecked(f, d)

\* Whether an exception is raised inside the cleanup block of
\* download_video and stream_file_and_cleanup. denied: the system refuses
\* the removals (PermissionError), so that the first one attempted raises;
\* otherwise only os.rmdir of a directory that is not empty raises. Nothing
\* raises when the file and the directory are already gone.
CleanupRaises(f, d, denied) ==
    IF denied
    THEN d \in DOMAIN f
    ELSE LET f1 == IF Exists(f, d, Artifact) THEN OsRemove(f, d, Artifact) ELSE f
         IN  d \in DOMAIN f1 /\ OsRmdirRaises(f1, d)

\* The same for the cleanup of src/app1.py's stream(), whose os.remove is
\* not guarded by os.path.exists.
CleanupUncheckedRaises(f, d, denied) ==
    \/ denied
    \/ ~Exists(f, d, Artifact)
    \/ OsRmdirRaises(OsRemove(f, d, Artifact), d)

StreamCleanupRaises(v, f, d, denied) ==
    IF CleanupInFinally(v) THEN CleanupRaises(f, d, denied)
    ELSE CleanupUncheckedRaises(f, d, denied)

\* Variant: the cleanup blocks are not wrapped in try/except.
CleanupErrorsEscape(v) == FALSE

\* Every cleanup block is wrapped in its own try ... except (except: pass,
\* or except Exception with a log line): what os.remove and os.rmdir raise
\* stays inside the block.
CleanupErrorsSwallowed(v) == v \in Variants

\* Variant: after a DownloadError the download is attempted once more, as
\* fetch_profile does with extract_info.
RetriesDownloadOnce(v) == TRUE

\* download_video calls ydl.download([url]) once, outside any loop: a
\* DownloadError goes straight to the except clause.
RetriesDownload(v) == FALSE

\* Variant: mkdtemp is called inside the handler's try, so that its failure
\* is treated like a failure of the download.
MkdtempInsideTry(v) ==
    [status |-> HandlerReaction(v, "Exception", FALSE).status, cleanup |-> TRUE]

\* tempfile.mkdtemp() is called before the handler's try: what it raises
\* leaves the handler, no cleanup block runs and the exception handler of
\* the application answers.
MkdtempFailureReaction(v) == [status |-> UNHANDLED_STATUS, cleanup |-> FALSE]

\* The smaller of two numbers.
Min(a, b) == IF a < b THEN a ELSE b

\* f.read(n) on a file holding `content`, at position pos: the next n bytes,
\* fewer when fewer remain, b"" at the end of the file.
FileRead(content, pos, n) == SubSeq(content, pos + 1, Min(pos + n, Len(content)))

\* Variant: the loop stops at the first chunk shorter than the chunk size.
EndOfFileOnShortChunk(chunk) == Len(chunk) < ChunkSize

\* while chunk := f.read(config.CHUNK_SIZE): the loop ends on an empty chunk.
EndOfFile(chunk) == chunk = <<>>

\* All contents of an artifact of at most n bytes.
Contents(n) == UNION {[1 .. k -> Bytes] : k \in 0 .. n}

\* ----------------------------------------------------------------------
\* History of the calls, kept apart from the limiter's own lists
\* ----------------------------------------------------------------------
\* A request that has arrived and whose handler has not run yet.
\*   pc       position: "new", "validate", "mkdtemp", "gateway", "streaming",
\*            "done" (the latest request to finish), "past" (finished earlier)
\*   status   HTTP status of the response (0: none yet)
\*   tmp      temp_dir (0: none created)
\*   raised   what ydl.download did: "" (not called), "none", "DownloadError", "Exception"
\*   left     the files the gateway left in temp_dir
\*   size     the artifact's length in chunks
\*   gen      the generator: "none", "created", "suspended", "exhausted", "failed", "closed"
\*   emitted  chunks yielded so far
\*   cleanups executions of a cleanup block for this request
\*   adm      check_rate_limit has returned (without raising) for this request
\*   attempts calls of ydl.download made for this request
\* gen is "cleanup_error" when an exception raised by the cleanup has left
\* the generator.
NewRequest ==
    [pc |-> "new", status |-> 0, tmp |-> 0, raised |-> "", left |-> {},
     size |-> 0, gen |-> "none", emitted |-> 0, cleanups |-> 0, adm |-> FALSE,
     attempts |-> 0]

Reqs == 1 .. NumRequests

\* The history keeps the details of the latest finished request only: when
\* another request finishes, the earlier ones keep nothing but the name of
\* their directory and whether the limiter admitted them. (The program
\* itself keeps nothing of a finished request:
\* what remains of it is in the file system and in the limiter.)
Past(rq) ==
    [x \in DOMAIN rq |->
        IF rq[x].pc \in {"done", "past"}
        THEN [NewRequest EXCEPT !.pc = "past", !.tmp = rq[x].tmp, !.adm = rq[x].adm]
        ELSE rq[x]]

\* Request r finishes with the record rec.
Finish(rq, r, rec) == [Past(rq) EXCEPT ![r] = rec]

\* Variant: the directory is a fixed path, the same for every request.
SharedTempName(rq) == 1

\* mkdtemp() returns the name of a directory it has just created, which no
\* earlier call has returned: here the names are numbered in the order of
\* their creation.
FreshTempName(rq) == Cardinality({r \in DOMAIN rq : rq[r].tmp # 0}) + 1

\* request.client.host of each request.
ClientOf(r) == IF r % 2 = 1 THEN "10.1.1.1" ELSE "10.2.2.2"

\* No artifact is being followed byte by byte.
NoStream == [content |-> <<>>, pos |-> 0, out |-> <<>>, state |-> "none"]

\* The second limiter has not been created.
NoSolo == [requests |-> << >>, last_cleanup |-> 0, result |-> "none", n |-> 0]

NoneInFlight == [new |-> 0, appending |-> 0, admitted |-> 0, rejected |-> 0]

NoBurst == [oldest |-> -1, rejects |-> 0]

\* No call yet. Of a call are kept: the client, the time, the outcome, the
\* number of the client's admissions in the window before it (prior), its
\* rank among the client's calls (n), the client's burst and first call,
\* the time elapsed since last_cleanup when it started, and whether it ran
\* a cleanup pass (last_cleanup was reset).
NoCall == [ip |-> "", at |-> -1, result |-> "none", prior |-> 0, n |-> 0,
           burst |-> NoBurst, since |-> -1, elapsed |-> 0, cleaned |-> FALSE]

\* The latest MAX+1 admissions of a client, oldest first.
Remember(log, t) ==
    LET l == Append(log, t)
    IN  IF Len(l) > RATE_LIMIT_MAX_REQUESTS + 1 THEN Tail(l) ELSE l

\* What the history keeps of a client's admissions when the clock shows t:
\* those of the trailing window, and the latest one before it.
StillOfInterest(log, t) ==
    LET old == {i \in DOMAIN log : log[i] <= t - RATE_LIMIT_WINDOW}
    IN  IF old = {} THEN log
        ELSE SubSeq(log, CHOOSE i \in old : \A j \in old : j <= i, Len(log))

\* Number of logged admissions in the trailing window (t - WINDOW, t].
InWindow(log, t) ==
    Cardinality({i \in DOMAIN log : log[i] > t - RATE_LIMIT_WINDOW /\ log[i] <= t})

\* The oldest logged admission inside the trailing window of t.
OldestInWindow(log, t) ==
    LET idx == {i \in DOMAIN log : log[i] > t - RATE_LIMIT_WINDOW}
    IN  IF idx = {} THEN -1 ELSE log[CHOOSE i \in idx : \A j \in idx : i <= j]

\* Number of calls made by all clients together.
RECURSIVE SumOver(_, _)
SumOver(f, S) ==
    IF S = {} THEN 0
    ELSE LET x == CHOOSE y \in S : TRUE IN f[x] + SumOver(f, S \ {x})

TotalCalls(f) == SumOver(f, DOMAIN f)

\* ----------------------------------------------------------------------
\* Actions
\* ----------------------------------------------------------------------
InitLimiter ==
    /\ now = 0
    /\ requests = <<>>
    /\ last_cleanup = 0
    /\ admitted = [c \in Clients |-> <<>>]
    /\ last = NoCall
    /\ ncalls = [c \in Clients |-> 0]
    /\ first_call = [c \in Clients |-> -1]
    /\ burst = [c \in Clients |-> NoBurst]
    /\ ticks = 0
    /\ variant = "app"
    /\ req = << >>
    /\ loop = 0
    /\ fs = << >>
    /\ inflight = NoneInFlight
    /\ stream = NoStream
    /\ hreq = << >>
    /\ solo = NoSolo

\* The wall clock advances between two calls.
Tick(d) ==
    /\ ticks < MaxTicks
    /\ now' = now + d
    /\ ticks' = ticks + 1
    /\ admitted' = [c \in Clients |-> StillOfInterest(admitted[c], now + d)]
    /\ UNCHANGED <<requests, last_cleanup, last, ncalls, first_call, burst>>
    /\ UNCHANGED <<dlvars, inflight, auxvars>>

\* The limiter takes the state r (the map, last_cleanup and the outcome of a
\* call by ip), and the call enters the history.
Record(ip, r) ==
        /\ requests' = r.requests
        /\ last_cleanup' = r.last_cleanup
        /\ ncalls' = [ncalls EXCEPT ![ip] = @ + 1]
        /\ first_call' = IF first_call[ip] = -1
                         THEN [first_call EXCEPT ![ip] = now] ELSE first_call
        /\ admitted' = IF r.result = "admitted"
                       THEN [admitted EXCEPT ![ip] = Remember(@, now)] ELSE admitted
        /\ burst' = [burst EXCEPT ![ip] =
                        IF r.result = "admitted" THEN NoBurst
                        ELSE IF @ = NoBurst
                             THEN [oldest |-> OldestInWindow(admitted[ip], now), rejects |-> 1]
                             ELSE [@ EXCEPT !.rejects = @ + 1]]
        /\ last' = [ip |-> ip, at |-> now, result |-> r.result,
                    prior |-> InWindow(admitted[ip], now),
                    n |-> ncalls[ip] + 1,
                    burst |-> burst[ip],
                    since |-> first_call'[ip],
                    elapsed |-> now - last_cleanup,
                    cleaned |-> r.last_cleanup # last_cleanup]

\* The effect of rate_limiter.check_rate_limit(ip) on the limiter, with the
\* history of the call; last'.result tells whether it returned or raised 429.
CheckAndRecord(ip) == Record(ip, CheckRateLimit(requests, last_cleanup, ip, now))

\* A handler (/preview, /profile, /download) calls
\* rate_limiter.check_rate_limit(request.client.host).
Call(ip) ==
    /\ TotalCalls(ncalls) < MaxCalls
    /\ ip # MainClient => ncalls[ip] < MaxOther
    /\ CheckAndRecord(ip)
    /\ UNCHANGED <<now, ticks, dlvars, inflight, auxvars>>

\* N requests of MainClient have arrived together and none has run yet.
InitConcurrent ==
    /\ now = 0
    /\ requests = << >>
    /\ last_cleanup = 0
    /\ admitted = [c \in Clients |-> <<>>]
    /\ last = NoCall
    /\ ncalls = [c \in Clients |-> 0]
    /\ first_call = [c \in Clients |-> -1]
    /\ burst = [c \in Clients |-> NoBurst]
    /\ ticks = 0
    /\ variant \in {"app", "part_000"}
    /\ req = << >>
    /\ loop = 0
    /\ fs = << >>
    /\ inflight = [NoneInFlight EXCEPT !.new = NumSimultaneous]
    /\ stream = NoStream
    /\ hreq = << >>
    /\ solo = NoSolo

\* One of the simultaneous requests runs the first statement of its handler,
\* rate_limiter.check_rate_limit(request.client.host). In a coroutine the
\* call runs as a whole. In a worker thread it can be preempted between the
\* test of the length and the append, which then is a step of its own.
EnterHandler ==
    \E at \in {"new", "appending"} :
        /\ inflight[at] > 0
        /\ IF at = "appending"
           THEN /\ Record(MainClient, AppendOnly(requests, last_cleanup, MainClient, now))
                /\ inflight' = [inflight EXCEPT !.appending = @ - 1, !.admitted = @ + 1]
           ELSE LET r == CheckRateLimit(requests, last_cleanup, MainClient, now)
                IN  IF HandlersAreCoroutines(variant) \/ r.result = "rejected"
                    THEN /\ Record(MainClient, r)
                         /\ inflight' = [inflight EXCEPT !.new = @ - 1, ![r.result] = @ + 1]
                    ELSE /\ inflight' = [inflight EXCEPT !.new = @ - 1, !.appending = @ + 1]
                         /\ UNCHANGED limvars
        /\ UNCHANGED <<now, ticks, dlvars, auxvars>>

NextConcurrent ==
    \/ Tick(1)
    \/ EnterHandler

SpecConcurrent == InitConcurrent /\ [][NextConcurrent]_vars

\* ----------------------------------------------------------------------
\* /download
\* ----------------------------------------------------------------------
\* The service has just started, or MainClient has just filled its window
\* with RATE_LIMIT_MAX_REQUESTS admitted requests.
FullWindow == [i \in 1 .. RATE_LIMIT_MAX_REQUESTS |-> 0]

InitDownload ==
    /\ now = 0
    /\ last_cleanup = 0
    /\ variant \in Variants
    /\ \E full \in BOOLEAN :
          /\ ~HasLimiter(variant) => ~full
          /\ requests = IF full THEN (MainClient :> FullWindow) ELSE << >>
          /\ admitted = [c \in Clients |-> IF full /\ c = MainClient THEN FullWindow ELSE <<>>]
          /\ ncalls = [c \in Clients |->
                          IF full /\ c = MainClient THEN RATE_LIMIT_MAX_REQUESTS ELSE 0]
          /\ first_call = [c \in Clients |-> IF full /\ c = MainClient THEN 0 ELSE -1]
    /\ last = NoCall
    /\ burst = [c \in Clients |-> NoBurst]
    /\ ticks = 0
    /\ req = [r \in Reqs |-> NewRequest]
    /\ loop = 0
    /\ fs = << >>
    /\ inflight = NoneInFlight
    /\ stream = NoStream
    /\ hreq = << >>
    /\ solo = NoSolo

\* The handler of request r starts (the requests are numbered in the order
\* in which their handlers start). download_video (a coroutine on the event
\* loop) first calls check_rate_limit, which returns or raises 429;
\* app1.py's download (a plain function) goes straight to mkdtemp.
Receive(r) ==
    /\ req[r].pc = "new"
    /\ \A x \in Reqs : x < r => req[x].pc # "new"
    /\ IF HasLimiter(variant)
       THEN /\ loop = 0
            /\ CheckAndRecord(ClientOf(r))
            /\ IF last'.result = "admitted"
               THEN /\ req' = [req EXCEPT ![r].pc = "validate", ![r].adm = TRUE]
                    /\ loop' = r
               ELSE /\ req' = Finish(req, r, [req[r] EXCEPT !.pc = "done", !.status = 429])
                    /\ loop' = 0
       ELSE /\ req' = [req EXCEPT ![r].pc = "mkdtemp"]
            /\ UNCHANGED <<limvars, loop>>
    /\ UNCHANGED <<now, ticks, variant, fs, inflight, auxvars>>

\* is_valid, platform = validate_url(url); not valid: HTTPException(400).
ValidateUrl(r, is_valid) ==
    /\ req[r].pc = "validate"
    /\ IF is_valid
       THEN /\ req' = [req EXCEPT ![r].pc = "mkdtemp"]
            /\ UNCHANGED loop
       ELSE /\ req' = Finish(req, r, [req[r] EXCEPT !.pc = "done", !.status = 400])
            /\ loop' = 0
    /\ UNCHANGED <<now, ticks, limvars, variant, fs, inflight, auxvars>>

\* temp_dir = tempfile.mkdtemp(): a new, empty directory.
MakeTempDir(r) ==
    /\ req[r].pc = "mkdtemp"
    /\ LET d == FreshTempName(req)
       IN  /\ fs' = [x \in DOMAIN fs \cup {d} |-> IF x = d THEN {} ELSE fs[x]]
           /\ req' = [req EXCEPT ![r].pc = "gateway", ![r].tmp = d]
    /\ UNCHANGED <<now, ticks, limvars, variant, loop, inflight, auxvars>>

\* tempfile.mkdtemp() raises OSError (disk full, permissions). The call is
\* outside the handler's try: the exception leaves the handler and the
\* exception handler of the application answers 500.
MakeTempDirFails(r) ==
    /\ req[r].pc = "mkdtemp"
    /\ LET res == MkdtempFailureReaction(variant)
       IN  /\ fs' = IF res.cleanup THEN CleanupWorkspace(fs, req[r].tmp) ELSE fs
           /\ req' = Finish(req, r,
                         [req[r] EXCEPT !.pc = "done", !.status = res.status,
                                        !.cleanups = IF res.cleanup THEN @ + 1 ELSE @])
    /\ loop' = IF HasLimiter(variant) THEN 0 ELSE loop
    /\ UNCHANGED <<now, ticks, limvars, variant, inflight, auxvars>>

\* ydl.download([url]) returns or raises, having left the files `left` in
\* temp_dir, and the handler runs to its end: the response is an error
\* (after the cleanup block, where there is one, during which the system
\* may refuse the removals: denied) or a StreamingResponse over a generator
\* that has not started, for an artifact of n chunks.
GatewayReturns(r, raised, left, n, denied) ==
    /\ req[r].pc = "gateway"
    /\ LET d       == req[r].tmp
           fs1     == [fs EXCEPT ![d] = left]
           res     == HandlerReaction(variant, raised, Artifact \in left)
           again   == /\ raised = "DownloadError"
                      /\ RetriesDownload(variant)
                      /\ req[r].attempts = 0
           escapes == /\ res.cleanup
                      /\ CleanupRaises(fs1, d, denied)
                      /\ ~CleanupErrorsSwallowed(variant)
           rec     == [req[r] EXCEPT !.pc = IF res.stream THEN "streaming" ELSE "done",
                                     !.status = IF escapes THEN UNHANDLED_STATUS
                                                ELSE res.status,
                                     !.raised = raised,
                                     !.left = left,
                                     !.size = n,
                                     !.gen = IF res.stream THEN "created" ELSE "none",
                                     !.cleanups = IF res.cleanup THEN @ + 1 ELSE @,
                                     !.attempts = @ + 1]
       IN  /\ n > 0 => res.stream
           /\ denied => res.cleanup
           /\ IF again
              THEN /\ fs' = fs1
                   /\ req' = [req EXCEPT ![r].attempts = @ + 1]
                   /\ UNCHANGED loop
              ELSE /\ fs' = IF res.cleanup /\ ~denied THEN CleanupWorkspace(fs1, d) ELSE fs1
                   /\ req' = IF res.stream THEN [req EXCEPT ![r] = rec]
                             ELSE Finish(req, r, rec)
                   /\ loop' = IF HasLimiter(variant) THEN 0 ELSE loop
    /\ UNCHANGED <<now, ticks, limvars, variant, inflight, auxvars>>

\* The response asks the generator for its next chunk (next()). The first
\* call opens the file; read() returns a chunk, which is yielded, or b"" at
\* the end of the file, or raises (fault); at the end, and in a finally
\* clause on an exception, the generator runs its cleanup. A refusal of the
\* removals by the system (denied) is followed for the cleanup of a stream
\* delivered to its end.
StreamNext(r, fault, denied) ==
    /\ req[r].pc = "streaming"
    /\ req[r].gen \in {"created", "suspended"}
    /\ HasLimiter(variant) => loop = 0
    /\ LET d       == req[r].tmp
           noFile  == req[r].gen = "created" /\ ~Exists(fs, d, Artifact)
           escapes == /\ StreamCleanupRaises(variant, fs, d, denied)
                      /\ ~CleanupErrorsSwallowed(variant)
       IN  IF noFile \/ fault
           THEN /\ ~denied
                /\ fs' = IF CleanupInFinally(variant)
                         THEN StreamCleanup(variant, fs, d) ELSE fs
                /\ req' = Finish(req, r,
                              [req[r] EXCEPT !.pc = "done", !.gen = "failed",
                                             !.cleanups =
                                                 IF CleanupInFinally(variant) THEN @ + 1 ELSE @])
           ELSE IF req[r].emitted < req[r].size
           THEN /\ ~denied
                /\ req' = [req EXCEPT ![r].gen = "suspended", ![r].emitted = @ + 1]
                /\ UNCHANGED fs
           ELSE /\ fs' = IF denied THEN fs ELSE StreamCleanup(variant, fs, d)
                /\ req' = Finish(req, r,
                              [req[r] EXCEPT !.pc = "done",
                                             !.gen = IF escapes THEN "cleanup_error"
                                                     ELSE "exhausted",
                                             !.cleanups = @ + 1])
    /\ UNCHANGED <<now, ticks, limvars, variant, loop, inflight, auxvars>>

\* The client disconnects and the response is dropped (close() of the
\* generator). A generator that has not started runs nothing; one suspended
\* at its yield gets GeneratorExit there, which runs a finally clause and
\* no code after the loop.
StreamClose(r) ==
    /\ req[r].pc = "streaming"
    /\ req[r].gen \in {"created", "suspended"}
    /\ HasLimiter(variant) => loop = 0
    /\ LET d       == req[r].tmp
           runs    == req[r].gen = "suspended" /\ CleanupInFinally(variant)
           escapes == /\ runs
                      /\ StreamCleanupRaises(variant, fs, d, FALSE)
                      /\ ~CleanupErrorsSwallowed(variant)
       IN  /\ fs' = IF runs THEN StreamCleanup(variant, fs, d) ELSE fs
           /\ req' = Finish(req, r,
                         [req[r] EXCEPT !.pc = "done",
                                        !.gen = IF escapes THEN "cleanup_error"
                                                ELSE "closed",
                                        !.cleanups = IF runs THEN @ + 1 ELSE @])
    /\ UNCHANGED <<now, ticks, limvars, variant, loop, inflight, auxvars>>

NextDownload ==
    \/ \E r \in Reqs : Receive(r)
    \/ \E r \in Reqs, ok \in BOOLEAN : ValidateUrl(r, ok)
    \/ \E r \in Reqs : MakeTempDir(r)
    \/ \E r \in Reqs : MakeTempDirFails(r)
    \/ \E r \in Reqs, raised \in {"none", "DownloadError", "Exception"},
          left \in SUBSET FileNames, n \in 0 .. MaxChunks, denied \in BOOLEAN :
            GatewayReturns(r, raised, left, n, denied)
    \/ \E r \in Reqs, fault, denied \in BOOLEAN : StreamNext(r, fault, denied)
    \/ \E r \in Reqs : StreamClose(r)

SpecDownload == InitDownload /\ [][NextDownload]_vars

\* The revisions with the rate limiter and the URL validation (src/app.py
\* and src/unnamed/part_000) on their own.
InitService == InitDownload /\ HasLimiter(variant)

SpecService == InitService /\ [][NextDownload]_vars

\* ----------------------------------------------------------------------
\* The read loop of stream_file_and_cleanup, byte by byte
\* ----------------------------------------------------------------------
\* The generator has been created over an artifact of any content.
InitStream ==
    /\ now = 0
    /\ requests = << >>
    /\ last_cleanup = 0
    /\ admitted = [c \in Clients |-> <<>>]
    /\ last = NoCall
    /\ ncalls = [c \in Clients |-> 0]
    /\ first_call = [c \in Clients |-> -1]
    /\ burst = [c \in Clients |-> NoBurst]
    /\ ticks = 0
    /\ variant \in {"app", "part_000"}
    /\ req = << >>
    /\ loop = 0
    /\ fs = << >>
    /\ inflight = NoneInFlight
    /\ \E c \in Contents(MaxBytes) :
          stream = [content |-> c, pos |-> 0, out |-> <<>>, state |-> "created"]
    /\ hreq = << >>
    /\ solo = NoSolo

\* next() of the generator: one turn of
\*   while chunk := f.read(config.CHUNK_SIZE): yield chunk
\* which yields the chunk read, or ends the loop on an empty one.
ReadNext ==
    /\ stream.state \in {"created", "suspended"}
    /\ LET chunk == FileRead(stream.content, stream.pos, ChunkSize)
       IN  stream' = IF EndOfFile(chunk)
                     THEN [stream EXCEPT !.state = "exhausted"]
                     ELSE [stream EXCEPT !.state = "suspended",
                                         !.pos = @ + Len(chunk),
                                         !.out = Append(@, chunk)]
    /\ UNCHANGED <<now, ticks, limvars, dlvars, inflight, hreq, solo>>

NextStream == ReadNext

SpecStream == InitStream /\ [][NextStream]_vars

NextLimiter ==
    \/ \E d \in Steps : Tick(d)
    \/ \E ip \in Clients : Call(ip)

SpecLimiter == InitLimiter /\ [][NextLimiter]_vars

\* A handler calls rate_limiter.check_rate_limit(request.client.host), in a
\* behaviour of few calls spread over long stretches of time.
CallOverTime(ip) ==
    /\ TotalCalls(ncalls) < MaxPurgeCalls
    /\ CheckAndRecord(ip)
    /\ UNCHANGED <<now, ticks, dlvars, inflight, auxvars>>

NextPurge ==
    \/ \E d \in PurgeSteps : Tick(d)
    \/ \E ip \in Clients : CallOverTime(ip)

SpecPurge == InitLimiter /\ [][NextPurge]_vars

\* ----------------------------------------------------------------------
\* Claims about the rate limiter
\* ----------------------------------------------------------------------
\* C1: a call of check_rate_limit is admitted exactly when fewer than
\* RATE_LIMIT_MAX_REQUESTS of the client's admitted calls lie in the trailing
\* RATE_LIMIT_WINDOW seconds, and rejected otherwise; in particular, of the
\* first 16 calls of a client, all made within 5 seconds, calls 1 to 15 are
\* admitted and call 16 is rejected.
C1_AdmitIffBelowLimit ==
    last.result # "none" =>
        /\ (last.result = "admitted") <=> (last.prior < RATE_LIMIT_MAX_REQUESTS)
        /\ (last.n <= RATE_LIMIT_MAX_REQUESTS + 1 /\ last.at - last.since <= 5) =>
               ((last.result = "admitted") <=> (last.n <= RATE_LIMIT_MAX_REQUESTS))

\* The 16th call of a client, 5 seconds after its first, has been rejected.
C1_Witness ==
    /\ last.result = "rejected"
    /\ last.n = RATE_LIMIT_MAX_REQUESTS + 1
    /\ last.at - last.since = 5

\* C2: for every client and every instant, at most RATE_LIMIT_MAX_REQUESTS of
\* the client's admitted calls have their timestamp in the trailing window
\* (t - RATE_LIMIT_WINDOW, t]. (The count of a window grows only when a call
\* is admitted, and is then the count of the window that ends at the latest
\* admission: the bound is stated for that window and for the one that
\* ends now, in every state.)
C2_WindowNeverOverfull ==
    \A c \in Clients :
        /\ InWindow(admitted[c], now) <= RATE_LIMIT_MAX_REQUESTS
        /\ admitted[c] # <<>> =>
               InWindow(admitted[c], admitted[c][Len(admitted[c])])
                   <= RATE_LIMIT_MAX_REQUESTS

\* A client holds a full window that has slid: more than MAX admissions in
\* all, exactly MAX of them in the current window, made at different times.
C2_Witness ==
    \E c \in Clients :
        /\ Len(admitted[c]) = RATE_LIMIT_MAX_REQUESTS + 1
        /\ InWindow(admitted[c], now) = RATE_LIMIT_MAX_REQUESTS
        /\ admitted[c][1] < admitted[c][2]
        /\ admitted[c][2] < admitted[c][RATE_LIMIT_MAX_REQUESTS + 1]

\* C3: once a client has been rejected with a full window, and has only been
\* rejected since, its call made RATE_LIMIT_WINDOW seconds or more (exactly
\* RATE_LIMIT_WINDOW included) after the oldest admitted call of that window
\* is admitted, however many times it was rejected in between.
C3_RecoveryAfterWindow ==
    (last.burst # NoBurst /\ last.at >= last.burst.oldest + RATE_LIMIT_WINDOW)
        => last.result = "admitted"

\* A client rejected twice is admitted exactly one window after the oldest
\* call of the burst.
C3_Witness ==
    /\ last.burst.rejects >= 2
    /\ last.at = last.burst.oldest + RATE_LIMIT_WINDOW
    /\ last.result = "admitted"

\* C4: when N requests of one client are in flight together and the window
\* starts empty, every order in which the event loop runs them gives exactly
\* RATE_LIMIT_MAX_REQUESTS admissions and N - RATE_LIMIT_MAX_REQUESTS
\* rejections, and never more admissions than the limit on the way.
C4_ExactlyKAdmitted ==
    /\ inflight.admitted <= RATE_LIMIT_MAX_REQUESTS
    /\ (inflight.new = 0 /\ inflight.appending = 0) =>
           /\ inflight.admitted = RATE_LIMIT_MAX_REQUESTS
           /\ inflight.rejected = NumSimultaneous - RATE_LIMIT_MAX_REQUESTS

\* All simultaneous requests have been answered, one of them with 429, while
\* the clock moved between them.
C4_Witness ==
    /\ inflight.new = 0
    /\ inflight.rejected >= 1
    /\ inflight.admitted = RATE_LIMIT_MAX_REQUESTS
    /\ now > 0
    /\ \E i \in DOMAIN requests[MainClient] : requests[MainClient][i] = 0

\* ----------------------------------------------------------------------
\* Claims about the /download lifecycle
\* ----------------------------------------------------------------------
\* The request has been answered with an error after mkdtemp, or its stream
\* has been consumed to the end.
AnsweredOrFullyStreamed(r) ==
    /\ req[r].pc = "done"
    /\ req[r].tmp # 0
    /\ req[r].raised # ""
    /\ req[r].gen \in {"none", "exhausted"}

\* C5: for every /download request that created a temporary directory and
\* every outcome of the gateway (success with the stream consumed to its end,
\* DownloadError, another exception, return without the file), the directory
\* no longer exists once the request is finished.
C5_NoLeakedTempDir ==
    \A r \in Reqs : AnsweredOrFullyStreamed(r) => req[r].tmp \notin DOMAIN fs

\* C6: whatever files the gateway left in the temporary directory (none, the
\* expected <index>.mp4, files of other names), the directory does not exist
\* after the cleanup of the request has run.
C6_CleanupRemovesDirectory ==
    \A r \in Reqs :
        (req[r].pc = "done" /\ req[r].cleanups >= 1) => req[r].tmp \notin DOMAIN fs

\* C7: when the client disconnects after k of the n chunks, 0 <= k < n, the
\* artifact and the temporary directory are removed all the same, and no
\* exception leaves the generator.
C7_DisconnectStillCleans ==
    \A r \in Reqs :
        (req[r].pc = "done" /\ req[r].gen = "closed" /\ req[r].emitted < req[r].size)
            => req[r].tmp \notin DOMAIN fs

\* C8: in stream_file_and_cleanup the cleanup runs only once the last chunk
\* has been yielded or the generator has been left by an exception (raised
\* by the read, or at the yield when the stream is dropped); it runs exactly
\* once per request: not while the stream can still yield, not twice (never
\* both in the handler and in the stream), and it is never skipped.
C8_CleanupExactlyOnceAfterStream ==
    \A r \in Reqs :
        (HasLimiter(variant) /\ req[r].gen # "none") =>
            /\ req[r].cleanups <= 1
            /\ req[r].pc = "streaming" => req[r].cleanups = 0
            /\ req[r].pc = "done" => req[r].cleanups = 1

\* C9: when ydl.download raises DownloadError in download_video, the response
\* has status 422, no chunk is emitted and the workspace is removed.
C9_DownloadErrorIs422AndCleans ==
    \A r \in Reqs :
        (HasLimiter(variant) /\ req[r].pc = "done" /\ req[r].raised = "DownloadError") =>
            /\ req[r].status = 422
            /\ req[r].gen = "none" /\ req[r].emitted = 0
            /\ req[r].tmp \notin DOMAIN fs

\* C10: when ydl.download returns without error and the expected file does
\* not exist, download_video answers 500, yields no chunk, and the empty
\* workspace is removed.
C10_MissingArtifactIs500 ==
    \A r \in Reqs :
        (HasLimiter(variant) /\ req[r].pc = "done" /\ req[r].raised = "none"
            /\ Artifact \notin req[r].left) =>
            /\ req[r].status = 500
            /\ req[r].gen = "none" /\ req[r].emitted = 0
            /\ req[r].left = {} => req[r].tmp \notin DOMAIN fs

\* ----------------------------------------------------------------------
\* Claims about the order of the stages and the isolation of the requests
\* ----------------------------------------------------------------------
\* C11: while one request is inside the gateway call, the handler of a
\* request of another client that has arrived can run: the limiter can
\* admit it before the gateway call of the first request finishes.
C11_UnrelatedRequestProgresses ==
    \A r1, r2 \in Reqs :
        (/\ req[r1].pc = "gateway"
         /\ req[r2].pc = "new"
         /\ ClientOf(r1) # ClientOf(r2)
         /\ \A x \in Reqs : x < r2 => req[x].pc # "new")
            => ENABLED Receive(r2)

\* C12: a request answered 429 has created no directory, has not called the
\* gateway and has started no stream; and a request that is past the
\* limiter (validating, creating its directory, in the gateway, streaming)
\* or holds a directory or a gateway result has been admitted by the
\* limiter before.
C12_AdmissionBeforeEveryStage ==
    \A r \in Reqs :
        /\ req[r].status = 429 =>
               /\ ~req[r].adm
               /\ req[r].tmp = 0 /\ req[r].raised = ""
               /\ req[r].gen = "none" /\ req[r].emitted = 0
        /\ (\/ req[r].pc \in {"validate", "mkdtemp", "gateway", "streaming"}
            \/ req[r].tmp # 0
            \/ req[r].raised # "") => req[r].adm

\* The handler of request r holds a workspace: it is inside the gateway
\* call or its response is being streamed.
InFlight(r) == req[r].pc \in {"gateway", "streaming"}

\* C13: at every moment two /download requests in flight (of the same url
\* and index: the artifact has the same name in both) hold different
\* temporary directories, and whatever the other requests did, cleanups
\* included, the directory of a request in flight exists and the artifact
\* of a request that is streaming is in it.
C13_WorkspacesNeverShared ==
    \A r1 \in Reqs :
        InFlight(r1) =>
            /\ \A r2 \in Reqs \ {r1} : InFlight(r2) => req[r1].tmp # req[r2].tmp
            /\ req[r1].tmp \in DOMAIN fs
            /\ req[r1].pc = "streaming" => Exists(fs, req[r1].tmp, Artifact)

\* Two requests are streaming at the same moment, each from its own
\* directory.
C13_Witness ==
    /\ req[1].pc = "streaming" /\ req[1].gen = "suspended"
    /\ req[2].pc = "streaming" /\ req[2].gen = "suspended"
    /\ Exists(fs, req[1].tmp, Artifact)
    /\ Exists(fs, req[2].tmp, Artifact)

\* ----------------------------------------------------------------------
\* Claims about the bytes of the stream
\* ----------------------------------------------------------------------
\* The chunks received, put end to end.
RECURSIVE Flatten(_)
Flatten(chunks) ==
    IF chunks = <<>> THEN <<>> ELSE Head(chunks) \o Flatten(Tail(chunks))

\* C14: for every content of the artifact (empty, of a length that is or is
\* not a multiple of the chunk size) every chunk yielded is non-empty and
\* holds at most the chunk size, every chunk but the last holds exactly the
\* chunk size, and once the generator is exhausted the chunks put end to
\* end are the content of the artifact.
C14_StreamRoundTrip ==
    /\ \A i \in DOMAIN stream.out :
           /\ stream.out[i] # <<>>
           /\ Len(stream.out[i]) <= ChunkSize
           /\ i < Len(stream.out) => Len(stream.out[i]) = ChunkSize
    /\ stream.state = "exhausted" => Flatten(stream.out) = stream.content

\* An artifact of several chunks, the last one short, has been streamed to
\* its end.
C14_Witness ==
    /\ stream.state = "exhausted"
    /\ Len(stream.out) >= 2
    /\ Len(stream.out[Len(stream.out)]) < ChunkSize
    /\ stream.content[1] # stream.content[Len(stream.content)]

\* ----------------------------------------------------------------------
\* Claims about failures in and around the /download handler
\* ----------------------------------------------------------------------
\* A cleanup block has run for request r and has failed: the directory is
\* still there.
CleanupFailed(r) == req[r].cleanups >= 1 /\ req[r].tmp \in DOMAIN fs

\* C15: when the cleanup of a request fails (directory not empty, removal
\* refused), the caller sees what it would have seen otherwise: on the error
\* path the status stays 422 (DownloadError, and every failure in
\* part_000) or 500 (other failures in app.py), and a stream delivered to
\* its end finishes normally, no exception leaving the generator.
C15_CleanupFailureSwallowed ==
    \A r \in Reqs :
        (req[r].pc = "done" /\ CleanupFailed(r)) =>
            /\ req[r].gen # "cleanup_error"
            /\ (req[r].gen = "none" /\ variant = "app") =>
                   req[r].status = IF req[r].raised = "DownloadError" THEN 422 ELSE 500
            /\ (req[r].gen = "none" /\ variant = "part_000") => req[r].status = 422
            /\ (req[r].gen \notin {"none", "failed", "closed"}) =>
                   /\ req[r].gen = "exhausted"
                   /\ req[r].emitted = req[r].size
                   /\ req[r].status = 200

\* A stream of two chunks has been delivered to its end and has finished
\* normally although its cleanup failed on a directory that is not empty.
C15_Witness ==
    \E r \in Reqs :
        /\ req[r].pc = "done" /\ CleanupFailed(r)
        /\ req[r].gen = "exhausted"
        /\ req[r].emitted = 2
        /\ fs[req[r].tmp] = {Partial}

\* C16: download_video calls ydl.download at most once for a request, and
\* a request whose call raised DownloadError is answered 422 after that one
\* call.
C16_DownloadCalledOnce ==
    \A r \in Reqs :
        /\ req[r].attempts <= 1
        /\ req[r].raised = "DownloadError" =>
               /\ req[r].pc = "done"
               /\ req[r].attempts = 1
               /\ req[r].status = 422

\* A request of src/app.py has been answered 422 after its one call of
\* ydl.download raised DownloadError.
C16_Witness ==
    \E r \in Reqs :
        /\ variant = "app"
        /\ req[r].pc = "done"
        /\ req[r].raised = "DownloadError"
        /\ req[r].attempts = 1
        /\ req[r].status = 422

\* C18: a step in which tempfile.mkdtemp() fails ends the request with
\* status 500, without any call of the gateway, without a stream and
\* without a directory, and leaves the rate limiter as the admission of the
\* request left it.
C18_MkdtempFailureIs500 ==
    [][\A r \in Reqs :
          (req[r].pc = "mkdtemp" /\ req'[r].pc = "done") =>
              /\ req'[r].status = 500
              /\ req'[r].attempts = 0 /\ req'[r].raised = ""
              /\ req'[r].gen = "none" /\ req'[r].emitted = 0
              /\ req'[r].tmp = 0 /\ fs' = fs
              /\ req'[r].adm
              /\ requests' = requests /\ last_cleanup' = last_cleanup
              /\ now \in {requests[ClientOf(r)][i] : i \in DOMAIN requests[ClientOf(r)]}]_vars

\* A request admitted by the limiter has been answered 500 because mkdtemp
\* failed, and its admission is in the limiter's list.
C18_Witness ==
    \E r \in Reqs :
        /\ req[r].pc = "done" /\ req[r].status = 500
        /\ req[r].adm /\ req[r].tmp = 0 /\ req[r].attempts = 0
        /\ Len(requests[ClientOf(r)]) >= 1

\* ----------------------------------------------------------------------
\* Claims about the periodic purge and the lists of the rate limiter
\* ----------------------------------------------------------------------
\* The client has a timestamp newer than t in the map.
HasTimestampAfter(ip, t) == \E i \in DOMAIN requests[ip] : requests[ip][i] > t

\* C17 (as stated): immediately after a call that ran a cleanup pass, every
\* client left in the map, other than the caller, has a timestamp within
\* RATE_LIMIT_WINDOW seconds of now.
C17_PurgeKeepsOnlyActiveWindows ==
    (last.cleaned /\ last.at = now) =>
        \A ip \in DOMAIN requests \ {last.ip} :
            HasTimestampAfter(ip, now - RATE_LIMIT_WINDOW)

\* C17 (amended): immediately after a call that ran a cleanup pass, every
\* client left in the map, other than the caller, has a timestamp within
\* 2 * RATE_LIMIT_WINDOW seconds of now, and every timestamp left in its
\* list is that recent.
C17_PurgeKeepsTwoWindows ==
    (last.cleaned /\ last.at = now) =>
        \A ip \in DOMAIN requests \ {last.ip} :
            /\ HasTimestampAfter(ip, now - 2 * RATE_LIMIT_WINDOW)
            /\ \A i \in DOMAIN requests[ip] : requests[ip][i] > now - 2 * RATE_LIMIT_WINDOW

\* A call has just run a cleanup pass that kept the key of another client
\* whose timestamps are all older than one window, having dropped the
\* older ones of its timestamps.
C17_Witness ==
    /\ last.cleaned /\ last.at = now
    /\ \E ip \in DOMAIN requests \ {last.ip} :
           /\ ~HasTimestampAfter(ip, now - RATE_LIMIT_WINDOW)
           /\ Len(requests[ip]) < ncalls[ip]

\* C19: a call of check_rate_limit that starts more than 300 seconds after
\* last_cleanup runs a cleanup pass and leaves last_cleanup equal to now,
\* whatever the time elapsed, one day or more included.
C19_CleanupWheneverDue ==
    (last.result # "none" /\ last.at = now /\ last.elapsed > CLEANUP_INTERVAL) =>
        /\ last.cleaned
        /\ last_cleanup = now

\* C20: immediately after check_rate_limit(ip) has returned or raised, the
\* list of ip holds only timestamps strictly newer than
\* now - RATE_LIMIT_WINDOW, in non-decreasing order; and in every state the
\* list of every client holds at most RATE_LIMIT_MAX_REQUESTS timestamps.
C20_ListInvariants ==
    /\ \A ip \in DOMAIN requests : Len(requests[ip]) <= RATE_LIMIT_MAX_REQUESTS
    /\ (last.result # "none" /\ last.at = now) =>
           LET l == Lookup(requests, last.ip)
           IN  /\ \A i \in DOMAIN l : l[i] > now - RATE_LIMIT_WINDOW
               /\ \A i \in DOMAIN l : i < Len(l) => l[i] <= l[i + 1]

\* A call has just been rejected on a full list whose timestamps are not
\* all equal, after an older timestamp of the client had left the window.
C20_Witness ==
    /\ last.result = "rejected" /\ last.at = now
    /\ Len(requests[last.ip]) = RATE_LIMIT_MAX_REQUESTS
    /\ requests[last.ip][1] < requests[last.ip][RATE_LIMIT_MAX_REQUESTS]
    /\ Len(admitted[last.ip]) = RATE_LIMIT_MAX_REQUESTS + 1
    /\ admitted[last.ip][1] <= now - RATE_LIMIT_WINDOW

\* ----------------------------------------------------------------------
\* Claims about the effect of a call on the windows
\* ----------------------------------------------------------------------
\* The timestamps of client c that lie in the window of time t.
WindowOf(reqs, c, t) == NewerThan(Lookup(reqs, c), t - RATE_LIMIT_WINDOW)

\* C21: a step in which check_rate_limit rejects a call appends nothing:
\* the list of the caller does not grow and holds exactly what its window
\* held before, the lists of the other clients lose expired timestamps at
\* most, and the window of every client is what it was.
C21_RejectedCallAppendsNothing ==
    [][(ncalls' # ncalls /\ last'.result = "rejected") =>
          /\ requests'[last'.ip] = WindowOf(requests, last'.ip, now)
          /\ Len(requests'[last'.ip]) <= Len(Lookup(requests, last'.ip))
          /\ \A c \in Clients :
                 /\ WindowOf(requests', c, now) = WindowOf(requests, c, now)
                 /\ Len(Lookup(requests', c)) <= Len(Lookup(requests, c))]_vars

\* A client has just been rejected again, in the middle of a burst of
\* rejections, while another client holds a timestamp in the map.
C21_Witness ==
    /\ last.result = "rejected" /\ last.at = now
    /\ last.burst # NoBurst
    /\ \E c \in DOMAIN requests : c # last.ip /\ requests[c] # <<>>

\* ----------------------------------------------------------------------
\* The three endpoints behind the one rate limiter
\* ----------------------------------------------------------------------
\* max_retries of fetch_profile (range(2) in part_000).
max_retries == 2

\* time.sleep(1) between two attempts.
SLEEP_SECONDS == 1

\* The number of requests followed through the three handlers.
NumEndpointRequests == 2

Endpoints == {"preview", "profile", "download"}

HReqs == 1 .. NumEndpointRequests

\* What a gateway call can do: return a dict, return None, raise
\* yt_dlp.utils.DownloadError, raise another exception.
GatewayOutcomes == {"dict", "None", "DownloadError", "Exception"}

Raised(outcome) == IF outcome \in {"dict", "None"} THEN "none" ELSE outcome

\* A request that has not arrived. calls and fails count the calls of
\* extract_info and those that raised; info is the local variable of that
\* name; unbound records a read of info before any assignment.
NewHRequest ==
    [endpoint |-> "none", ip |-> "none", pc |-> "new", status |-> 0, adm |-> FALSE,
     attempt |-> 0, calls |-> 0, fails |-> 0, slept |-> 0,
     info |-> "unassigned", unbound |-> FALSE]

\* Variant: the handlers validate the URL before they ask the limiter.
ChecksLimitAfterValidation(e) == FALSE

\* rate_limiter.check_rate_limit(request.client.host) is the first
\* statement of preview_video, fetch_profile and download_video.
ChecksLimitFirst(e) == e \in Endpoints

\* Variant: the test for the last attempt is off by one.
LastAttemptOffByOne(attempt) == attempt = max_retries

\* if attempt == max_retries - 1
LastAttempt(attempt) == attempt = max_retries - 1

\* app.py raises HTTPException(422) in the except clause of the last
\* attempt; part_000 sleeps after every failure and raises in the else
\* clause of the for loop.
RaisesInExcept(v) == v = "app"

HasElseClause(v) == v = "part_000"

\* The status of /preview once extract_info has returned or raised. In
\* app.py the HTTPException(422) raised for a falsy info is itself caught
\* by "except Exception"; in part_000 info.get on None raises inside the
\* bare except.
PreviewReaction(v, outcome) ==
    IF v = "app"
    THEN CASE outcome = "DownloadError" -> 422
           [] outcome = "dict" -> 200
           [] OTHER -> 500
    ELSE IF outcome = "dict" THEN 200 ELSE 422

\* The statements of fetch_profile after the retry loop begin with
\* info.get('entries', []): an unassigned info raises UnboundLocalError, a
\* None raises AttributeError, and both reach the global handler.
AfterLoopStatus(info) == IF info = "dict" THEN 200 ELSE UNHANDLED_STATUS

\* The service has been up for a moment and MainClient has been admitted
\* RATE_LIMIT_MAX_REQUESTS - 1 times in this second; the other client has
\* not called yet.
AlmostFullWindow == [i \in 1 .. RATE_LIMIT_MAX_REQUESTS - 1 |-> 0]

Prefilled(c) == IF c = MainClient THEN Len(AlmostFullWindow) ELSE 0

InitEndpoints ==
    /\ now = 0
    /\ last_cleanup = 0
    /\ variant \in {"app", "part_000"}
    /\ requests = (MainClient :> AlmostFullWindow)
    /\ admitted = [c \in Clients |-> IF c = MainClient THEN AlmostFullWindow ELSE <<>>]
    /\ ncalls = [c \in Clients |-> Prefilled(c)]
    /\ first_call = [c \in Clients |-> IF c = MainClient THEN 0 ELSE -1]
    /\ last = NoCall
    /\ burst = [c \in Clients |-> NoBurst]
    /\ ticks = 0
    /\ req = << >>
    /\ loop = 0
    /\ fs = << >>
    /\ inflight = NoneInFlight
    /\ stream = NoStream
    /\ hreq = [r \in HReqs |-> NewHRequest]
    /\ solo = NoSolo

\* The handler of request r asks the limiter; admitted: the handler goes
\* on to "to"; rejected: HTTPException(429) ends the request.
AskLimiter(r, e, ip, to) ==
    /\ CheckAndRecord(ip)
    /\ IF last'.result = "admitted"
       THEN /\ hreq' = [hreq EXCEPT ![r] = [@ EXCEPT !.endpoint = e, !.ip = ip,
                                                     !.pc = to, !.adm = TRUE]]
            /\ loop' = r
       ELSE /\ hreq' = [hreq EXCEPT ![r] = [@ EXCEPT !.endpoint = e, !.ip = ip,
                                                     !.pc = "done", !.status = 429]]
            /\ loop' = 0

\* A request of client ip to endpoint e arrives and its handler (a
\* coroutine on the event loop) starts: check_rate_limit comes first.
EpReceive(r, e, ip) ==
    /\ hreq[r].pc = "new"
    /\ \A x \in HReqs : x < r => hreq[x].pc # "new"
    /\ loop = 0
    /\ IF ChecksLimitFirst(e)
       THEN AskLimiter(r, e, ip, "validate")
       ELSE /\ hreq' = [hreq EXCEPT ![r] = [@ EXCEPT !.endpoint = e, !.ip = ip,
                                                     !.pc = "validate"]]
            /\ loop' = r
            /\ UNCHANGED limvars
    /\ UNCHANGED <<now, ticks, variant, req, fs, inflight, stream, solo>>

\* is_valid, platform = validate_url(url); not valid: HTTPException(400).
EpValidate(r, is_valid) ==
    /\ hreq[r].pc = "validate"
    /\ IF ~is_valid
       THEN /\ hreq' = [hreq EXCEPT ![r] = [@ EXCEPT !.pc = "done", !.status = 400]]
            /\ loop' = 0
            /\ UNCHANGED limvars
       ELSE IF hreq[r].adm
            THEN /\ hreq' = [hreq EXCEPT ![r].pc = "gateway"]
                 /\ UNCHANGED <<limvars, loop>>
            ELSE AskLimiter(r, hreq[r].endpoint, hreq[r].ip, "gateway")
    /\ UNCHANGED <<now, ticks, variant, req, fs, inflight, stream, solo>>

\* One call of the gateway returns or raises. /preview and /download call
\* it once and answer (the steps of /download after this point are those
\* of SpecDownload, here taken up to the status of the response);
\* /profile calls it inside the retry loop.
EpGateway(r, outcome, hasFile) ==
    /\ hreq[r].pc = "gateway"
    /\ LET h == [hreq[r] EXCEPT !.calls = @ + 1]
           f == [h EXCEPT !.fails = @ + 1]
       IN  CASE h.endpoint = "preview" ->
                  /\ hasFile
                  /\ hreq' = [hreq EXCEPT ![r] =
                        [h EXCEPT !.pc = "done", !.status = PreviewReaction(variant, outcome)]]
                  /\ loop' = 0
             [] h.endpoint = "download" ->
                  /\ outcome # "None"
                  /\ hreq' = [hreq EXCEPT ![r] =
                        [h EXCEPT !.pc = "done",
                                  !.status = HandlerReaction(variant, Raised(outcome), hasFile).status]]
                  /\ loop' = 0
             [] OTHER ->
                  /\ hasFile
                  /\ IF Raised(outcome) = "none"
                     THEN /\ hreq' = [hreq EXCEPT ![r] =
                                [h EXCEPT !.pc = "after_loop", !.info = outcome]]
                          /\ UNCHANGED loop
                     ELSE IF RaisesInExcept(variant) /\ LastAttempt(h.attempt)
                     THEN /\ hreq' = [hreq EXCEPT ![r] =
                                [f EXCEPT !.pc = "done", !.status = 422]]
                          /\ loop' = 0
                     ELSE /\ hreq' = [hreq EXCEPT ![r] = [f EXCEPT !.pc = "sleep"]]
                          /\ UNCHANGED loop
    /\ UNCHANGED <<now, ticks, limvars, variant, req, fs, inflight, stream, solo>>

\* time.sleep(1) returns and the for loop takes its next turn, or is
\* exhausted: then its else clause raises HTTPException(422) where there is
\* one, and the statements after the loop run where there is none.
EpSleep(r) ==
    /\ hreq[r].pc = "sleep"
    /\ now' = now + SLEEP_SECONDS
    /\ admitted' = [c \in Clients |-> StillOfInterest(admitted[c], now + SLEEP_SECONDS)]
    /\ LET h == [hreq[r] EXCEPT !.slept = @ + 1, !.attempt = @ + 1]
       IN  IF h.attempt < max_retries
           THEN /\ hreq' = [hreq EXCEPT ![r] = [h EXCEPT !.pc = "gateway"]]
                /\ UNCHANGED loop
           ELSE IF HasElseClause(variant)
           THEN /\ hreq' = [hreq EXCEPT ![r] = [h EXCEPT !.pc = "done", !.status = 422]]
                /\ loop' = 0
           ELSE /\ hreq' = [hreq EXCEPT ![r] = [h EXCEPT !.pc = "after_loop"]]
                /\ UNCHANGED loop
    /\ UNCHANGED <<requests, last_cleanup, last, ncalls, first_call, burst>>
    /\ UNCHANGED <<ticks, variant, req, fs, inflight, stream, solo>>

\* entries = info.get('entries', []) and the pagination that follows.
EpAfterLoop(r) ==
    /\ hreq[r].pc = "after_loop"
    /\ LET h == hreq[r]
       IN  hreq' = [hreq EXCEPT ![r] =
                      [h EXCEPT !.pc = "done",
                                !.status = AfterLoopStatus(h.info),
                                !.unbound = (h.info = "unassigned")]]
    /\ loop' = 0
    /\ UNCHANGED <<now, ticks, limvars, variant, req, fs, inflight, stream, solo>>

\* The steps a started handler takes by itself.
HandlerStep ==
    \/ \E r \in HReqs, is_valid \in BOOLEAN : EpValidate(r, is_valid)
    \/ \E r \in HReqs, outcome \in GatewayOutcomes, hasFile \in BOOLEAN :
          EpGateway(r, outcome, hasFile)
    \/ \E r \in HReqs : EpSleep(r)
    \/ \E r \in HReqs : EpAfterLoop(r)

NextEndpoints ==
    \/ \E r \in HReqs, e \in Endpoints, ip \in Clients : EpReceive(r, e, ip)
    \/ HandlerStep

SpecEndpoints == InitEndpoints /\ [][NextEndpoints]_vars

\* Every statement of a handler returns: the gateway call returns or raises
\* within its socket timeout and the sleep lasts one second.
SpecEndpointsFair == SpecEndpoints /\ WF_vars(HandlerStep)

\* ----------------------------------------------------------------------
\* Claims about the retry loop of /profile and the shared window
\* ----------------------------------------------------------------------
IsProfile(r) == hreq[r].endpoint = "profile"

\* C22: the handler of /profile calls the gateway at most max_retries
\* times, makes no call after one that succeeded, answers 422 exactly when
\* max_retries calls have raised, never reads info before it is assigned,
\* and every started handler reaches its response.
C22_ProfileRetries ==
    /\ [](\A r \in HReqs : IsProfile(r) =>
            /\ hreq[r].calls <= max_retries
            /\ hreq[r].calls - hreq[r].fails \in {0, 1}
            /\ hreq[r].calls > hreq[r].fails => hreq[r].pc \in {"after_loop", "done"}
            /\ hreq[r].pc = "done" =>
                  (hreq[r].status = 422 <=> hreq[r].fails = max_retries)
            /\ ~hreq[r].unbound
            /\ hreq[r].pc = "after_loop" => hreq[r].info # "unassigned")
    /\ \A r \in HReqs :
          (IsProfile(r) /\ hreq[r].pc # "done") ~> (IsProfile(r) /\ hreq[r].pc = "done")

\* One request to /profile has been answered 422 after two failed calls and
\* another has been answered 200 by its second call.
C22_Witness ==
    \E r1, r2 \in HReqs :
        /\ IsProfile(r1) /\ hreq[r1].pc = "done" /\ hreq[r1].status = 422
        /\ hreq[r1].calls = max_retries /\ hreq[r1].fails = max_retries
        /\ IsProfile(r2) /\ hreq[r2].pc = "done" /\ hreq[r2].status = 200
        /\ hreq[r2].calls = max_retries /\ hreq[r2].fails = max_retries - 1

\* The requests of client c whose handler has started and which the
\* limiter has not answered 429.
PastLimiter(c) ==
    {r \in HReqs : hreq[r].ip = c /\ hreq[r].pc # "new" /\ hreq[r].status # 429}

\* C24: the one list the limiter keeps for a client holds one timestamp
\* for each of its requests to /preview, /profile or /download that was not
\* answered 429, whatever the status of the response, and a request is
\* answered 429 only against a list that is full.
C24_OneSlotPerAdmittedRequest ==
    /\ \A c \in Clients :
          Len(Lookup(requests, c)) = Prefilled(c) + Cardinality(PastLimiter(c))
    /\ \A r \in HReqs :
          hreq[r].status = 429 =>
             Len(Lookup(requests, hreq[r].ip)) = RATE_LIMIT_MAX_REQUESTS

\* A request answered 400 or with a gateway failure took the last slot of
\* its client, whose next request, to another endpoint, is answered 429.
C24_Witness ==
    \E r1, r2 \in HReqs :
        /\ hreq[r1].ip = hreq[r2].ip /\ hreq[r1].endpoint # hreq[r2].endpoint
        /\ hreq[r1].pc = "done" /\ hreq[r1].status \in {400, 422, 500}
        /\ hreq[r2].pc = "done" /\ hreq[r2].status = 429

\* ----------------------------------------------------------------------
\* Two runs of the limiter side by side
\* ----------------------------------------------------------------------
\* The limiter was created at time 0; either nothing has happened since, or
\* MainClient has just been admitted RATE_LIMIT_MAX_REQUESTS - 1 times at
\* time 290, shortly before a cleanup pass is due. The second limiter has
\* received the same calls.
InitIsolation ==
    /\ \E busy \in BOOLEAN :
          LET t0  == IF busy THEN 290 ELSE 0
              win == IF busy THEN [i \in 1 .. RATE_LIMIT_MAX_REQUESTS - 1 |-> t0] ELSE <<>>
              map == IF busy THEN (MainClient :> win) ELSE << >>
          IN  /\ now = t0
              /\ requests = map
              /\ admitted = [c \in Clients |-> IF c = MainClient THEN win ELSE <<>>]
              /\ ncalls = [c \in Clients |-> IF c = MainClient THEN Len(win) ELSE 0]
              /\ first_call = [c \in Clients |-> IF busy /\ c = MainClient THEN t0 ELSE -1]
              /\ solo = [NoSolo EXCEPT !.requests = map]
    /\ last_cleanup = 0
    /\ last = NoCall
    /\ burst = [c \in Clients |-> NoBurst]
    /\ ticks = 0
    /\ variant = "app"
    /\ req = << >>
    /\ loop = 0
    /\ fs = << >>
    /\ inflight = NoneInFlight
    /\ stream = NoStream
    /\ hreq = << >>

\* Client ip calls check_rate_limit in the first run; the second run
\* receives the call only when it is MainClient's.
CallInBothRuns(ip) ==
    /\ solo.n < MaxPurgeCalls
    /\ CheckAndRecord(ip)
    /\ solo' = IF ip = MainClient
               THEN LET s == CheckRateLimit(solo.requests, solo.last_cleanup, ip, now)
                    IN  [requests |-> s.requests, last_cleanup |-> s.last_cleanup,
                         result |-> s.result, n |-> solo.n + 1]
               ELSE [solo EXCEPT !.n = @ + 1]
    /\ UNCHANGED <<now, ticks, dlvars, inflight, stream, hreq>>

NextIsolation ==
    \/ \E d \in Steps : Tick(d)
    \/ \E ip \in Clients : CallInBothRuns(ip)

SpecIsolation == InitIsolation /\ [][NextIsolation]_vars

\* C23: MainClient gets from the limiter that serves every client the
\* decision it gets from a limiter that serves MainClient alone, call after
\* call, and its window is the same in both, whatever the other clients
\* call and whichever call runs the cleanup pass.
C23_SameDecisionsAlone ==
    /\ last.ip = MainClient => last.result = solo.result
    /\ WindowOf(requests, MainClient, now) = WindowOf(solo.requests, MainClient, now)

\* MainClient has just been rejected in both runs, after a call of another
\* client ran the cleanup pass in the first run only.
C23_Witness ==
    /\ last.ip = MainClient /\ last.at = now /\ last.result = "rejected"
    /\ ~last.cleaned
    /\ last_cleanup > 0
    /\ solo.last_cleanup = now
    /\ \E c \in DOMAIN requests : c # MainClient
====
